---------------------------- MODULE Spec2Model ----------------------------
(***************************************************************************)
(* The user data-access layer of tsplayground's server (userDb): the       *)
(* lazily opened shared SQLite handle, the BEGIN/COMMIT/ROLLBACK wrapper    *)
(* and the five accessors.  Every accessor call is a process that runs     *)
(* from one await to the next; a step of the model is one statement        *)
(* executed by the store together with the synchronous continuation that   *)
(* follows it.                                                             *)
(***************************************************************************)
EXTENDS Integers, Sequences, FiniteSets, TLC

\* ------------------------------------------------------------- bounds
\* accessor calls started in one behaviour of the sequential specifications
MaxCalls == 3
\* accessor calls started in one behaviour with overlapping calls
MaxConcCalls == 2
\* identifiers a caller may ask for: 1..MaxId
MaxId == 2
\* store faults (I/O errors) injected in one behaviour of the fault specs
MaxFaults == 1
\* accessor calls started in one behaviour of the fault specs
MaxFaultCalls == 2

Procs == {"p1", "p2"}
\* the one caller of the sequential specifications
SeqProcs == {"p1"}
\* open() yields a new connection each time; at most one per caller
Handles == 1..Cardinality(Procs)

Usernames == {"alice", "bob"}
Emails == {"a@x.com", "b@x.com", "c@x.com"}
Hashes == {"h1", "h2"}
\* values of datetime('now')
Times == {"t1", "t2"}
Ids == 1..MaxId

NULL == "NULL"
\* the empty string
EMPTY == ""
\* a field the caller of updateUser left out (undefined)
ABSENT == "ABSENT"

\* ------------------------------------------------------------- values
NoRow == [id |-> 0, username |-> NULL, email |-> NULL,
          password_hash |-> NULL, created_at |-> NULL]

User(id, username, email, password_hash, created_at) ==
    [id |-> id, username |-> username, email |-> email,
     password_hash |-> password_hash, created_at |-> created_at]

NewUsers == [username : Usernames, email : Emails, password_hash : Hashes]

PartialNewUsers == [username : Usernames \cup {ABSENT},
                    email : Emails \cup {ABSENT},
                    password_hash : Hashes \cup {ABSENT}]

NoFields == [username |-> ABSENT, email |-> ABSENT, password_hash |-> ABSENT]

NoErr == [kind |-> "none", code |-> "none", at |-> "none"]
\* an error object: its class, its .code and the statement that raised it
Err(kind, code, at) == [kind |-> kind, code |-> code, at |-> at]
UserNotFoundError(at) == Err("UserNotFoundError", "none", at)
UserAlreadyExistsError(at) == Err("UserAlreadyExistsError", "none", at)
StoreError(code, at) == Err("Error", code, at)

\* ------------------------------------------------------------- the store
\* The content of app.db: whether the users table exists, its rows, and
\* sqlite_sequence (the largest rowid ever inserted).
EmptyDb == [schema |-> FALSE, rows |-> {}, seq |-> 0]

\* A connection: whether BEGIN is open on it, the file lock it holds, and
\* the content it has written but not committed.
FreshConn == [txn |-> FALSE, lock |-> "none", work |-> EmptyDb]

\* CREATE TABLE IF NOT EXISTS users
CreateTable(d) == IF d.schema THEN d ELSE [d EXCEPT !.schema = TRUE]

\* username TEXT NOT NULL, email TEXT NOT NULL, password_hash TEXT NOT NULL
NotNullViolation(username, email, password_hash) ==
    NULL \in {username, email, password_hash}

\* a mutant of UniqueViolation: UNIQUE is enforced on INSERT only (id 0 is
\* the row being inserted), not when a row is updated
UniqueViolation_insertOnly(rows, id, username, email) ==
    /\ id = 0
    /\ \E r \in rows : r.username = username \/ r.email = email

\* a mutant of UniqueViolation: only username is declared UNIQUE
UniqueViolation_usernameOnly(rows, id, username, email) ==
    \E r \in rows : r.id # id /\ r.username = username

\* username ... UNIQUE, email ... UNIQUE: another row holds the value
UniqueViolation(rows, id, username, email) ==
    \E r \in rows : r.id # id /\ (r.username = username \/ r.email = email)

\* a mutant of NextRowid: INTEGER PRIMARY KEY without AUTOINCREMENT
NextRowid_maxPlusOne(d) ==
    IF d.rows = {} THEN 1
    ELSE (CHOOSE i \in {r.id : r \in d.rows} :
              \A r \in d.rows : r.id <= i) + 1

\* id INTEGER PRIMARY KEY AUTOINCREMENT: one more than the largest rowid that
\* was ever in the table
NextRowid(d) == d.seq + 1

\* a mutant of SelectById: the WHERE clause is missing, any row is returned
SelectById_anyRow(d, id) ==
    IF d.rows # {}
    THEN CHOOSE r \in d.rows : \A s \in d.rows : r.id <= s.id
    ELSE NoRow

\* SELECT * FROM users WHERE id = ?  (undefined when no row matches)
SelectById(d, id) ==
    IF \E r \in d.rows : r.id = id
    THEN CHOOSE r \in d.rows : r.id = id
    ELSE NoRow

\* INSERT INTO users (username, email, password_hash) VALUES (?, ?, ?)
Insert(d, username, email, password_hash, now) ==
    IF ~d.schema
    THEN [code |-> "SQLITE_ERROR", db |-> d, lastID |-> 0]
    ELSE IF \/ NotNullViolation(username, email, password_hash)
            \/ UniqueViolation(d.rows, 0, username, email)
    THEN [code |-> "SQLITE_CONSTRAINT", db |-> d, lastID |-> 0]
    ELSE LET id == NextRowid(d)
         IN [code |-> "OK",
             db |-> [d EXCEPT !.rows = @ \cup {User(id, username, email,
                                                    password_hash, now)},
                              !.seq = id],
             lastID |-> id]

\* UPDATE users SET username = ?, email = ?, password_hash = ? WHERE id = ?
Update(d, id, username, email, password_hash) ==
    IF ~d.schema
    THEN [code |-> "SQLITE_ERROR", db |-> d, changes |-> 0]
    ELSE IF SelectById(d, id) = NoRow
    THEN [code |-> "OK", db |-> d, changes |-> 0]
    ELSE IF \/ NotNullViolation(username, email, password_hash)
            \/ UniqueViolation(d.rows, id, username, email)
    THEN [code |-> "SQLITE_CONSTRAINT", db |-> d, changes |-> 0]
    ELSE LET old == SelectById(d, id)
             new == [old EXCEPT !.username = username, !.email = email,
                                !.password_hash = password_hash]
         IN [code |-> "OK",
             db |-> [d EXCEPT !.rows = (@ \ {old}) \cup {new}],
             changes |-> 1]

\* a mutant of Delete: the WHERE clause is missing, every row goes
Delete_allRows(d, id) ==
    IF ~d.schema
    THEN [code |-> "SQLITE_ERROR", db |-> d, changes |-> 0]
    ELSE [code |-> "OK", db |-> [d EXCEPT !.rows = {}],
          changes |-> Cardinality(d.rows)]

\* DELETE FROM users WHERE id = ?
Delete(d, id) ==
    IF ~d.schema
    THEN [code |-> "SQLITE_ERROR", db |-> d, changes |-> 0]
    ELSE IF SelectById(d, id) = NoRow
    THEN [code |-> "OK", db |-> d, changes |-> 0]
    ELSE [code |-> "OK",
          db |-> [d EXCEPT !.rows = @ \ {SelectById(d, id)}],
          changes |-> 1]

RECURSIVE OrderById(_)
\* a mutant of OrderById: the rows in descending id order
OrderById_desc(rows) ==
    IF rows = {} THEN << >>
    ELSE LET last == CHOOSE r \in rows : \A s \in rows : s.id <= r.id
         IN << last >> \o OrderById(rows \ {last})

\* ... ORDER BY id
OrderById(rows) ==
    IF rows = {} THEN << >>
    ELSE LET first == CHOOSE r \in rows : \A s \in rows : r.id <= s.id
         IN << first >> \o OrderById(rows \ {first})

\* ------------------------------------------------------------- state
VARIABLES
    db,       \* the module's `let db`: 0 is null, otherwise the handle
    opened,   \* how many times open() has produced a handle
    file,     \* the committed content of app.db
    conn,     \* the connection behind each handle
    pc,       \* where each caller's accessor call is suspended
    call,     \* each caller's current (or last) call: op, id, fields
    loc,      \* the locals of the call
    res,      \* what the last call returned or threw
    pre,      \* history: the committed rows and the ids that ever existed
              \* when the call started
    prev,     \* history: the caller's previous call, when it was a createUser
              \* or deleteUser that succeeded: the op and the user it was about
    ever,     \* history: the ids of all users that ever existed
    handed,   \* history: the handles initDb has returned
    booted,   \* history: the handles on which CREATE TABLE has completed
    calls,    \* accessor calls that may still be started
    faults,   \* store faults still to be injected
    http,     \* each caller's controller invocation: the handler, whether it
              \* awaits the data layer, and history of what it did
    wt,       \* the withTimeout call of the async exercises
    wr,       \* the withRetry call of the async exercises
    pl        \* the call of a function that createPipeline returned

vars == << db, opened, file, conn, pc, call, loc, res, pre, prev, ever,
           handed, booted, calls, faults, http, wt, wr, pl >>

\* the state of the async exercises, which share nothing with the user store
asyncVars == << wt, wr, pl >>
\* the state of the user store and of its controllers
userVars == << db, opened, file, conn, pc, call, loc, res, pre, prev, ever,
               handed, booted, calls, faults, http >>

NoCall == [op |-> "none", id |-> 0, fields |-> NoFields]
NoRes == [status |-> "none", user |-> NoRow, list |-> << >>, err |-> NoErr,
          cause |-> NoErr, tx |-> << >>, changes |-> -1]
NoLoc == [h |-> 0, g |-> 0, b |-> 0, lastID |-> 0, user |-> NoRow,
          err |-> NoErr, tx |-> << >>, changes |-> -1]
NoPre == [rows |-> {}, ever |-> {}]
\* no controller is running; sent, passed and dbCalls are history: the
\* statuses of the responses sent, the error given to next(), the number of
\* data-layer calls made
NoHttp == [handler |-> "none", version |-> "none", body |-> NoFields,
           awaiting |-> FALSE, sent |-> << >>, passed |-> NoErr,
           dbCalls |-> 0]
\* no withTimeout call, no withRetry call
NoWt == [pc |-> "none"]
NoWr == [pc |-> "none"]
\* no pipeline call
NoPl == [pc |-> "none"]
NoPrev == [op |-> "none", user |-> NoRow]

CallSet ==
    {[op |-> "createUser", id |-> 0, fields |-> f] : f \in NewUsers}
    \cup {[op |-> "getUserById", id |-> i, fields |-> NoFields] : i \in Ids}
    \cup {[op |-> "getAllUsers", id |-> 0, fields |-> NoFields]}
    \cup {[op |-> "updateUser", id |-> i, fields |-> f] :
              i \in Ids, f \in PartialNewUsers}
    \cup {[op |-> "deleteUser", id |-> i, fields |-> NoFields] : i \in Ids}

\* ------------------------------------------------------------- connections
\* What a statement on handle h sees: its own uncommitted writes, else the file.
View(h) == IF conn[h].lock = "reserved" THEN conn[h].work ELSE file

OtherReserved(h) == \E k \in Handles \ {h} : conn[k].lock = "reserved"
OtherLocked(h) == \E k \in Handles \ {h} : conn[k].lock # "none"

\* the outcome of a statement: its result code and the store after it
Outcome(code, f, c) == [code |-> code, file |-> f, conn |-> c]

\* an injected I/O error: the statement has no effect; SQLite may also have
\* rolled the open transaction back by itself ("abort")
Faulted(h, flt) ==
    Outcome("SQLITE_IOERR", file,
            IF flt = "abort" THEN [conn EXCEPT ![h] = FreshConn] ELSE conn)

\* db.exec('BEGIN')
ExecBegin(h) ==
    IF conn[h].txn
    THEN Outcome("SQLITE_ERROR", file, conn)
    ELSE Outcome("OK", file, [conn EXCEPT ![h].txn = TRUE])

\* db.exec('COMMIT')
ExecCommit(h) ==
    IF ~conn[h].txn
    THEN Outcome("SQLITE_ERROR", file, conn)
    ELSE IF conn[h].lock = "reserved"
    THEN IF OtherLocked(h)
         THEN Outcome("SQLITE_BUSY", file, conn)
         ELSE Outcome("OK", conn[h].work, [conn EXCEPT ![h] = FreshConn])
    ELSE Outcome("OK", file, [conn EXCEPT ![h] = FreshConn])

\* a mutant of ExecRollback: the transaction ends but its writes are kept
ExecRollback_keepsWrites(h) ==
    IF ~conn[h].txn
    THEN Outcome("SQLITE_ERROR", file, conn)
    ELSE Outcome("OK", View(h), [conn EXCEPT ![h] = FreshConn])

\* db.exec('ROLLBACK')
ExecRollback(h) ==
    IF ~conn[h].txn
    THEN Outcome("SQLITE_ERROR", file, conn)
    ELSE Outcome("OK", file, [conn EXCEPT ![h] = FreshConn])

\* a reading statement (db.get, db.all) on handle h
ExecRead(h) ==
    IF ~View(h).schema
    THEN Outcome("SQLITE_ERROR", file, conn)
    ELSE Outcome("OK", file,
                 IF conn[h].txn /\ conn[h].lock = "none"
                 THEN [conn EXCEPT ![h].lock = "shared"] ELSE conn)

\* a writing statement (db.run, db.exec of DDL) on handle h whose effect on
\* the content it sees is `out` (a result code and the new content)
ExecWrite(h, out) ==
    IF OtherReserved(h)
    THEN Outcome("SQLITE_BUSY", file, conn)
    ELSE IF conn[h].txn
    THEN Outcome(out.code, file,
                 [conn EXCEPT ![h].lock = "reserved", ![h].work = out.db])
    ELSE IF out.code # "OK"
    THEN Outcome(out.code, file, conn)
    ELSE IF OtherLocked(h)
    THEN Outcome("SQLITE_BUSY", file, conn)
    ELSE Outcome("OK", out.db, conn)

\* the faults a statement may suffer in this state
FaultChoices == IF faults > 0 THEN {"none", "keep", "abort"} ELSE {"none"}

\* ------------------------------------------------------------- Init
InitWith(ncalls, nfaults) ==
    /\ db = 0
    /\ opened = 0
    /\ file = EmptyDb
    /\ conn = [h \in Handles |-> FreshConn]
    /\ pc = [p \in Procs |-> "idle"]
    /\ call = [p \in Procs |-> NoCall]
    /\ loc = [p \in Procs |-> NoLoc]
    /\ res = [p \in Procs |-> NoRes]
    /\ pre = [p \in Procs |-> NoPre]
    /\ prev = [p \in Procs |-> NoPrev]
    /\ ever = {}
    /\ handed = {}
    /\ booted = {}
    /\ calls = ncalls
    /\ faults = nfaults
    /\ http = [p \in Procs |-> NoHttp]
    /\ wt = NoWt
    /\ wr = NoWr
    /\ pl = NoPl

Init == InitWith(MaxCalls, 0)

\* ------------------------------------------------------------- helpers
Returned(user) == [NoRes EXCEPT !.status = "ok", !.user = user]
ReturnedList(list) == [NoRes EXCEPT !.status = "ok", !.list = list]
\* the call rejects with err; cause is the failure that started the unwinding
Thrown(err, cause) == [NoRes EXCEPT !.status = "err", !.err = err,
                                    !.cause = cause]

\* the statement's outcome becomes the state of the store
Apply(o, flt) ==
    /\ file' = o.file
    /\ conn' = o.conn
    /\ ever' = ever \cup {r.id : r \in o.file.rows}
    /\ faults' = IF flt = "none" THEN faults ELSE faults - 1

\* the locals once the statement of label is sent: history of the
\* transaction statements (BEGIN, COMMIT, ROLLBACK) the call has issued
Sent(label, l) ==
    IF label \in {"begin", "commit", "rollback"}
    THEN [l EXCEPT !.tx = Append(@, label)]
    ELSE l

\* the call settles: the caller is free for its next call
Finish(p, r) ==
    /\ pc' = [pc EXCEPT ![p] = "idle"]
    /\ res' = [res EXCEPT ![p] = [r EXCEPT !.tx = loc[p].tx,
                                            !.changes = loc[p].changes]]
    /\ loc' = [loc EXCEPT ![p] = NoLoc]

\* the call goes on to its next statement with new locals
Goto(p, label, l) ==
    /\ pc' = [pc EXCEPT ![p] = label]
    /\ loc' = [loc EXCEPT ![p] = Sent(label, l)]
    /\ res' = res

\* the accessor's first statement once `await initDb()` has given it a handle
FirstPc(op) ==
    IF op \in {"createUser", "updateUser", "deleteUser"} THEN "begin"
    ELSE IF op = "getUserById" THEN "get"
    ELSE "all"

\* the first statement of the function passed to withTransaction
BodyPc(op) ==
    IF op = "createUser" THEN "insert"
    ELSE IF op = "updateUser" THEN "current"
    ELSE "exists"

\* createUser's catch: err.code === 'SQLITE_CONSTRAINT' becomes
\* UserAlreadyExistsError, anything else is rethrown
CreateCatch(err) ==
    IF err.code = "SQLITE_CONSTRAINT" THEN UserAlreadyExistsError(err.at)
    ELSE err

\* updates.x ?? current.x
Coalesce(supplied, current) == IF supplied = ABSENT THEN current ELSE supplied

\* a mutant of GetUserById: the `if (!user) throw` is missing
GetUserById_noThrow(h, id, o) ==
    IF o.code # "OK"
    THEN [err |-> StoreError(o.code, "SELECT"), user |-> NoRow]
    ELSE [err |-> NoErr, user |-> SelectById(View(h), id)]

\* the body of getUserById on handle h, given the outcome o of its SELECT
GetUserById(h, id, o) ==
    IF o.code # "OK"
    THEN [err |-> StoreError(o.code, "SELECT"), user |-> NoRow]
    ELSE IF SelectById(View(h), id) = NoRow
    THEN [err |-> UserNotFoundError("SELECT"), user |-> NoRow]
    ELSE [err |-> NoErr, user |-> SelectById(View(h), id)]

\* what the next call remembers of a call c that settled with r
Summary(c, r) ==
    IF r.status = "ok" /\ c.op = "createUser"
    THEN [op |-> c.op, user |-> r.user]
    ELSE IF r.status = "ok" /\ c.op = "deleteUser"
    THEN [op |-> c.op, user |-> [NoRow EXCEPT !.id = r.user.id]]
    ELSE NoPrev

\* ------------------------------------------------------------- initDb
\* a mutant of StartFrom: initDb without `if (db) return db`
StartFrom_alwaysOpens(p, S) ==
    /\ pc[p] = "idle"
    /\ calls > 0
    /\ \E c \in S :
        /\ call' = [call EXCEPT ![p] = c]
        /\ prev' = [prev EXCEPT ![p] = Summary(call[p], res[p])]
        /\ pre' = [pre EXCEPT ![p] = [rows |-> file.rows, ever |-> ever]]
        /\ res' = [res EXCEPT ![p] = NoRes]
        /\ pc' = [pc EXCEPT ![p] = "open"]
        /\ loc' = [loc EXCEPT ![p] = NoLoc]
    /\ calls' = calls - 1
    /\ UNCHANGED << db, opened, file, conn, ever, handed, booted, faults,
                    asyncVars >>

\* An accessor is called with one of the inputs in S and calls initDb:
\* `if (db) return db`, else open().
StartFrom(p, S) ==
    /\ pc[p] = "idle"
    /\ calls > 0
    /\ \E c \in S :
        /\ call' = [call EXCEPT ![p] = c]
        /\ prev' = [prev EXCEPT ![p] = Summary(call[p], res[p])]
        /\ pre' = [pre EXCEPT ![p] = [rows |-> file.rows, ever |-> ever]]
        /\ res' = [res EXCEPT ![p] = NoRes]
        /\ IF db # 0
           THEN /\ pc' = [pc EXCEPT ![p] = FirstPc(c.op)]
                /\ loc' = [loc EXCEPT ![p] =
                               Sent(FirstPc(c.op), [NoLoc EXCEPT !.h = db])]
                /\ handed' = handed \cup {db}
           ELSE /\ pc' = [pc EXCEPT ![p] = "open"]
                /\ loc' = [loc EXCEPT ![p] = NoLoc]
                /\ handed' = handed
    /\ calls' = calls - 1
    /\ UNCHANGED << db, opened, file, conn, ever, booted, faults, asyncVars >>

Start(p) == StartFrom(p, CallSet) /\ UNCHANGED http

\* the calls of the specifications with overlapping callers: one
\* password_hash, and updateUser with at most one field supplied
ConcCallSet ==
    {c \in CallSet :
        /\ c.fields.password_hash \in {"h1", ABSENT}
        /\ c.op = "updateUser" =>
              Cardinality({f \in {"username", "email", "password_hash"} :
                              c.fields[f] # ABSENT}) <= 1}

StartConc(p) == StartFrom(p, ConcCallSet) /\ UNCHANGED http

\* createUser arguments of a caller that is not type-checked: one of the
\* three fields is null
NullNewUsers ==
    {u \in [username : Usernames \cup {NULL}, email : Emails \cup {NULL},
            password_hash : {"h1", NULL}] :
        Cardinality({f \in {"username", "email", "password_hash"} :
                        u[f] = NULL}) = 1}

\* the calls of the specification with untyped callers
NullCallSet ==
    CallSet \cup [op : {"createUser"}, id : {0}, fields : NullNewUsers]

StartNull(p) == StartFrom(p, NullCallSet) /\ UNCHANGED http

\* `db = await open(...)` settles; CREATE TABLE is sent on the new handle.
initDb_open(p) ==
    /\ pc[p] = "open"
    /\ \E flt \in (IF faults > 0 THEN {"none", "fail"} ELSE {"none"}) :
        IF flt = "none"
        THEN /\ opened' = opened + 1
             /\ db' = opened + 1
             /\ Goto(p, "bootstrap", [NoLoc EXCEPT !.b = opened + 1])
             /\ UNCHANGED << faults >>
        ELSE /\ Finish(p, Thrown(StoreError("SQLITE_CANTOPEN", "open"),
                                 StoreError("SQLITE_CANTOPEN", "open")))
             /\ faults' = faults - 1
             /\ UNCHANGED << db, opened >>
    /\ UNCHANGED << file, conn, call, pre, prev, ever, handed, booted, calls,
                    http, asyncVars >>

\* `await db.exec(CREATE TABLE IF NOT EXISTS ...)` settles; `return db`.
initDb_exec(p) ==
    /\ pc[p] = "bootstrap"
    /\ \E flt \in FaultChoices :
        LET h == loc[p].b
            o == IF flt # "none" THEN Faulted(h, flt)
                 ELSE IF View(h).schema THEN ExecRead(h)
                 ELSE ExecWrite(h, [code |-> "OK", db |-> CreateTable(View(h))])
        IN /\ Apply(o, flt)
           /\ IF o.code = "OK"
              THEN /\ Goto(p, FirstPc(call[p].op), [NoLoc EXCEPT !.h = db])
                   /\ handed' = handed \cup {db}
                   /\ booted' = booted \cup {h}
              ELSE /\ Finish(p, Thrown(StoreError(o.code, "CREATE TABLE"),
                                       StoreError(o.code, "CREATE TABLE")))
                   /\ UNCHANGED << handed, booted >>
    /\ UNCHANGED << db, opened, call, pre, prev, calls, http, asyncVars >>

\* ------------------------------------------------------------- withTransaction
\* `await db.exec('BEGIN')` settles; on success fn() is called.
withTransaction_begin(p) ==
    /\ pc[p] = "begin"
    /\ \E flt \in FaultChoices :
        LET h == loc[p].h
            o == IF flt # "none" THEN Faulted(h, flt) ELSE ExecBegin(h)
        IN /\ Apply(o, flt)
           /\ IF o.code = "OK"
              THEN Goto(p, BodyPc(call[p].op), [loc[p] EXCEPT !.g = db])
              ELSE Finish(p, Thrown(StoreError(o.code, "BEGIN"),
                                    StoreError(o.code, "BEGIN")))
    /\ UNCHANGED << db, opened, call, pre, prev, handed, booted, calls, http,
                    asyncVars >>

\* a mutant of Throw: withTransaction without its catch, err reaches the
\* caller with the transaction left open
Throw_noRollback(p, err) == Finish(p, Thrown(err, err))

\* fn() threw err: control is in withTransaction's catch, ROLLBACK is sent
Throw(p, err) == Goto(p, "rollback", [loc[p] EXCEPT !.err = err])

\* `await db.exec('COMMIT')` settles; on success result is returned.
withTransaction_commit(p) ==
    /\ pc[p] = "commit"
    /\ \E flt \in FaultChoices :
        LET h == loc[p].h
            o == IF flt # "none" THEN Faulted(h, flt) ELSE ExecCommit(h)
        IN /\ Apply(o, flt)
           /\ IF o.code = "OK"
              THEN Finish(p, Returned(loc[p].user))
              ELSE Throw(p, StoreError(o.code, "COMMIT"))
    /\ UNCHANGED << db, opened, call, pre, prev, handed, booted, calls, http,
                    asyncVars >>

\* `await db.exec('ROLLBACK')` settles; `throw err`.
withTransaction_rollback(p) ==
    /\ pc[p] = "rollback"
    /\ \E flt \in FaultChoices :
        LET h == loc[p].h
            o == IF flt # "none" THEN Faulted(h, flt) ELSE ExecRollback(h)
        IN /\ Apply(o, flt)
           /\ IF o.code = "OK"
              THEN Finish(p, Thrown(loc[p].err, loc[p].err))
              ELSE Finish(p, Thrown(StoreError(o.code, "ROLLBACK"),
                                    loc[p].err))
    /\ UNCHANGED << db, opened, call, pre, prev, handed, booted, calls, http,
                    asyncVars >>

\* ------------------------------------------------------------- createUser
\* `await db.run(INSERT ...)` settles; the read-back SELECT is sent.
createUser_run(p) ==
    /\ pc[p] = "insert"
    /\ \E flt \in FaultChoices, now \in Times :
        LET h == loc[p].h
            u == call[p].fields
            out == Insert(View(h), u.username, u.email, u.password_hash, now)
            o == IF flt # "none" THEN Faulted(h, flt) ELSE ExecWrite(h, out)
        IN /\ Apply(o, flt)
           /\ IF o.code = "OK"
              THEN Goto(p, "readback", [loc[p] EXCEPT !.lastID = out.lastID])
              ELSE Throw(p, CreateCatch(StoreError(o.code, "INSERT")))
    /\ UNCHANGED << db, opened, call, pre, prev, handed, booted, calls, http,
                    asyncVars >>

\* `await db.get(SELECT ... WHERE id = result.lastID)` settles.
createUser_get(p) ==
    /\ pc[p] = "readback"
    /\ \E flt \in FaultChoices :
        LET h == loc[p].h
            o == IF flt # "none" THEN Faulted(h, flt) ELSE ExecRead(h)
            newUser == SelectById(View(h), loc[p].lastID)
        IN /\ Apply(o, flt)
           /\ IF o.code # "OK"
              THEN Throw(p, CreateCatch(StoreError(o.code, "SELECT")))
              ELSE IF newUser = NoRow
              THEN Throw(p, CreateCatch(UserNotFoundError("SELECT")))
              ELSE Goto(p, "commit", [loc[p] EXCEPT !.user = newUser])
    /\ UNCHANGED << db, opened, call, pre, prev, handed, booted, calls, http,
                    asyncVars >>

\* ------------------------------------------------------------- getUserById
\* `await db.get(SELECT ... WHERE id = ?)` settles.
getUserById_get(p) ==
    /\ pc[p] = "get"
    /\ \E flt \in FaultChoices :
        LET h == loc[p].h
            o == IF flt # "none" THEN Faulted(h, flt) ELSE ExecRead(h)
            r == GetUserById(h, call[p].id, o)
        IN /\ Apply(o, flt)
           /\ IF r.err = NoErr
              THEN Finish(p, Returned(r.user))
              ELSE Finish(p, Thrown(r.err, r.err))
    /\ UNCHANGED << db, opened, call, pre, prev, handed, booted, calls, http,
                    asyncVars >>

\* ------------------------------------------------------------- getAllUsers
\* `await db.all(SELECT * FROM users ORDER BY id)` settles.
getAllUsers_all(p) ==
    /\ pc[p] = "all"
    /\ \E flt \in FaultChoices :
        LET h == loc[p].h
            o == IF flt # "none" THEN Faulted(h, flt) ELSE ExecRead(h)
        IN /\ Apply(o, flt)
           /\ IF o.code = "OK"
              THEN Finish(p, ReturnedList(OrderById(View(h).rows)))
              ELSE Finish(p, Thrown(StoreError(o.code, "SELECT"),
                                    StoreError(o.code, "SELECT")))
    /\ UNCHANGED << db, opened, call, pre, prev, handed, booted, calls, http,
                    asyncVars >>

\* ------------------------------------------------------------- updateUser
\* `const current = await getUserById(id)` settles; UPDATE is sent.
updateUser_current(p) ==
    /\ pc[p] = "current"
    /\ \E flt \in FaultChoices :
        LET g == loc[p].g
            o == IF flt # "none" THEN Faulted(g, flt) ELSE ExecRead(g)
            r == GetUserById(g, call[p].id, o)
        IN /\ Apply(o, flt)
           /\ IF r.err = NoErr
              THEN Goto(p, "update", [loc[p] EXCEPT !.user = r.user])
              ELSE Throw(p, r.err)
    /\ UNCHANGED << db, opened, call, pre, prev, handed, booted, calls, http,
                    asyncVars >>

\* a mutant of Updated: a field the caller left out is cleared to the first
\* row's value instead of keeping the current one
Updated_dropsCurrent(updates, current) ==
    [username |-> Coalesce(updates.username, current.username),
     email |-> Coalesce(updates.email, current.email),
     password_hash |-> Coalesce(updates.password_hash, "h1")]

\* const updated = { username: updates.username ?? current.username, ... }
Updated(updates, current) ==
    [username |-> Coalesce(updates.username, current.username),
     email |-> Coalesce(updates.email, current.email),
     password_hash |-> Coalesce(updates.password_hash, current.password_hash)]

\* `await db.run(UPDATE ...)` settles; getUserById(id) is called again.
updateUser_run(p) ==
    /\ pc[p] = "update"
    /\ \E flt \in FaultChoices :
        LET h == loc[p].h
            updated == Updated(call[p].fields, loc[p].user)
            out == Update(View(h), call[p].id, updated.username,
                          updated.email, updated.password_hash)
            o == IF flt # "none" THEN Faulted(h, flt) ELSE ExecWrite(h, out)
        IN /\ Apply(o, flt)
           /\ IF o.code = "OK"
              THEN Goto(p, "updated", [loc[p] EXCEPT !.g = db])
              ELSE Throw(p, StoreError(o.code, "UPDATE"))
    /\ UNCHANGED << db, opened, call, pre, prev, handed, booted, calls, http,
                    asyncVars >>

\* `return await getUserById(id)` settles.
updateUser_updated(p) ==
    /\ pc[p] = "updated"
    /\ \E flt \in FaultChoices :
        LET g == loc[p].g
            o == IF flt # "none" THEN Faulted(g, flt) ELSE ExecRead(g)
            r == GetUserById(g, call[p].id, o)
        IN /\ Apply(o, flt)
           /\ IF r.err = NoErr
              THEN Goto(p, "commit", [loc[p] EXCEPT !.user = r.user])
              ELSE Throw(p, r.err)
    /\ UNCHANGED << db, opened, call, pre, prev, handed, booted, calls, http,
                    asyncVars >>

\* ------------------------------------------------------------- deleteUser
\* `const user = await db.get(SELECT ... WHERE id = ?)` settles.
deleteUser_get(p) ==
    /\ pc[p] = "exists"
    /\ \E flt \in FaultChoices :
        LET h == loc[p].h
            o == IF flt # "none" THEN Faulted(h, flt) ELSE ExecRead(h)
            user == SelectById(View(h), call[p].id)
        IN /\ Apply(o, flt)
           /\ IF o.code # "OK"
              THEN Throw(p, StoreError(o.code, "SELECT"))
              ELSE IF user = NoRow
              THEN Throw(p, UserNotFoundError("SELECT"))
              ELSE Goto(p, "delete", [loc[p] EXCEPT !.user = user])
    /\ UNCHANGED << db, opened, call, pre, prev, handed, booted, calls, http,
                    asyncVars >>

\* a mutant of deleteUser_result: `if (!result.changes) throw` is missing
deleteUser_result_ignoresChanges(p, code, changes) ==
    IF code # "OK"
    THEN Throw(p, StoreError(code, "DELETE"))
    ELSE Goto(p, "commit", [loc[p] EXCEPT !.changes = changes])

\* what deleteUser does with the result of its DELETE: history of
\* result.changes, `if (!result.changes) throw new UserNotFoundError`,
\* `return user`
deleteUser_result(p, code, changes) ==
    IF code # "OK"
    THEN Throw(p, StoreError(code, "DELETE"))
    ELSE IF changes = 0
    THEN Goto(p, "rollback", [loc[p] EXCEPT !.changes = 0,
                                           !.err = UserNotFoundError("DELETE")])
    ELSE Goto(p, "commit", [loc[p] EXCEPT !.changes = changes])

\* `const result = await db.run(DELETE ...)` settles.
deleteUser_run(p) ==
    /\ pc[p] = "delete"
    /\ \E flt \in FaultChoices :
        LET h == loc[p].h
            out == Delete(View(h), call[p].id)
            o == IF flt # "none" THEN Faulted(h, flt) ELSE ExecWrite(h, out)
        IN /\ Apply(o, flt)
           /\ deleteUser_result(p, o.code, out.changes)
    /\ UNCHANGED << db, opened, call, pre, prev, handed, booted, calls, http,
                    asyncVars >>

\* `await db.run(DELETE ...)` settles with result.changes = 0 although the
\* SELECT found the row (a driver inconsistency): the row is deleted or not
deleteUser_zero(p) ==
    /\ pc[p] = "delete"
    /\ \E deleted \in BOOLEAN :
        LET h == loc[p].h
            out == IF deleted THEN Delete(View(h), call[p].id)
                   ELSE [code |-> "OK", db |-> View(h), changes |-> 0]
            o == ExecWrite(h, out)
        IN /\ Apply(o, "none")
           /\ deleteUser_result(p, o.code, 0)
    /\ UNCHANGED << db, opened, call, pre, prev, handed, booted, calls, http,
                    asyncVars >>

\* ------------------------------------------------------------- controllers
\* the two versions of the controllers: userController.ts and part_000
Versions == {"A", "B"}

\* what req.body may hold for each field: nothing, '' or a value
Bodies == [username : {ABSENT, EMPTY, "alice"},
           email : {ABSENT, EMPTY, "a@x.com", "b@x.com"},
           password_hash : {ABSENT, EMPTY, "h1"}]

\* a mutant of Missing: only username is validated
Missing_usernameOnly(body) == body.username \in {ABSENT, EMPTY, NULL}

\* !username || !email || !password_hash
Missing(body) ==
    \E f \in {"username", "email", "password_hash"} :
        body[f] \in {ABSENT, EMPTY, NULL}

\* res.status(status).json(...): a response carrying this user, if any
Response(status, user) == [status |-> status, user |-> user]

\* the controller is invoked and runs up to its first await: it responds at
\* once (replies non-empty) or calls the data layer with c
Invoke(p, handler, v, body, c, replies) ==
    /\ pc[p] = "idle"
    /\ ~http[p].awaiting
    /\ calls > 0
    /\ IF replies # << >>
       THEN /\ http' = [http EXCEPT ![p] =
                          [NoHttp EXCEPT !.handler = handler, !.version = v,
                                         !.body = body, !.sent = replies]]
            /\ calls' = calls - 1
            /\ UNCHANGED << db, opened, file, conn, pc, call, loc, res, pre,
                            prev, ever, handed, booted, faults, asyncVars >>
       ELSE /\ http' = [http EXCEPT ![p] =
                          [NoHttp EXCEPT !.handler = handler, !.version = v,
                                         !.body = body, !.awaiting = TRUE,
                                         !.dbCalls = 1]]
            /\ StartFrom(p, {c})

\* the awaited data-layer call has settled and the controller runs to its
\* end: it sends replies, or throws thrown, which asyncHandler's
\* `.catch(next)` passes to next
Settle(p, handler, replies, thrown) ==
    /\ http[p].handler = handler
    /\ http[p].awaiting
    /\ pc[p] = "idle"
    /\ res[p].status # "none"
    /\ http' = [http EXCEPT ![p].awaiting = FALSE,
                            ![p].sent = @ \o replies,
                            ![p].passed = thrown]
    /\ UNCHANGED << db, opened, file, conn, pc, call, loc, res, pre, prev,
                    ever, handed, booted, calls, faults, asyncVars >>

\* the catch blocks of getUserById and of deleteUserById in part_000
NotFoundOr500(err) ==
    IF err.kind = "UserNotFoundError" THEN << Response(404, NoRow) >>
    ELSE << Response(500, NoRow) >>

getAllUsers_handler(p) ==
    \E v \in Versions :
        Invoke(p, "getAllUsers", v, NoFields,
               [op |-> "getAllUsers", id |-> 0, fields |-> NoFields], << >>)

getAllUsers_settled(p) ==
    IF res[p].status = "ok"
    THEN Settle(p, "getAllUsers", << Response(200, NoRow) >>, NoErr)
    ELSE Settle(p, "getAllUsers", << >>, res[p].err)

createUser_handler(p) ==
    \E v \in Versions, body \in Bodies :
        Invoke(p, "createUser", v, body,
               [op |-> "createUser", id |-> 0, fields |-> body],
               IF Missing(body) THEN << Response(400, NoRow) >> ELSE << >>)

createUser_settled(p) ==
    Settle(p, "createUser",
           IF res[p].status = "ok" THEN << Response(201, res[p].user) >>
           ELSE IF res[p].err.kind = "UserAlreadyExistsError"
           THEN << Response(409, NoRow) >>
           ELSE << Response(500, NoRow) >>,
           NoErr)

getUserById_handler(p) ==
    \E v \in Versions, id \in Ids :
        Invoke(p, "getUserById", v, NoFields,
               [op |-> "getUserById", id |-> id, fields |-> NoFields], << >>)

getUserById_settled(p) ==
    Settle(p, "getUserById",
           IF res[p].status = "ok" THEN << Response(200, res[p].user) >>
           ELSE NotFoundOr500(res[p].err),
           NoErr)

deleteUserById_handler(p) ==
    \E v \in Versions, id \in Ids :
        Invoke(p, "deleteUserById", v, NoFields,
               [op |-> "deleteUser", id |-> id, fields |-> NoFields], << >>)

\* userController.ts: `if (await db.deleteUser(userId))` 200 `else` 404, no
\* try/catch; part_000: try 200, catch 404 or 500
deleteUserById_settled(p) ==
    IF http[p].version = "A"
    THEN IF res[p].status = "ok"
         THEN Settle(p, "deleteUserById",
                     IF res[p].user # NoRow THEN << Response(200, NoRow) >>
                     ELSE << Response(404, NoRow) >>,
                     NoErr)
         ELSE Settle(p, "deleteUserById", << >>, res[p].err)
    ELSE Settle(p, "deleteUserById",
                IF res[p].status = "ok" THEN << Response(200, res[p].user) >>
                ELSE NotFoundOr500(res[p].err),
                NoErr)

\* ------------------------------------------------------------- withTimeout
\* the two implementations of withTimeout: Promise.race against a promise
\* built from an async executor, Promise.any against a timer that rejects
Impls == {"race", "any"}

\* time runs from 0 to MaxTime, timeoutMs from 1 to MaxTimeout
MaxTime == 4
MaxTimeout == 3

\* the promises handed to withTimeout: whether and when they settle, and how
Promises ==
    [settles : {TRUE}, at : 0..MaxTime, how : {"fulfilled", "rejected"}]
    \cup [settles : {FALSE}, at : {0}, how : {"fulfilled"}]

Pending == [status |-> "pending", with |-> "none"]
Fulfilled(value) == [status |-> "fulfilled", with |-> value]
Rejected(reason) == [status |-> "rejected", with |-> reason]

\* what a promise of Promises settles to
Settlement(promise) ==
    IF promise.how = "fulfilled" THEN Fulfilled("value")
    ELSE Rejected("reason")

\* Promise.race([promise, timeout]): the first of the two to settle
PromiseRace(promise, timeout) ==
    IF promise.status # "pending" THEN promise
    ELSE IF timeout.status # "pending" THEN timeout
    ELSE Pending

\* Promise.any([promise, timeout]): the first to fulfil, or AggregateError
\* once both have rejected
PromiseAny(promise, timeout) ==
    IF promise.status = "fulfilled" THEN promise
    ELSE IF timeout.status = "fulfilled" THEN timeout
    ELSE IF promise.status = "rejected" /\ timeout.status = "rejected"
    THEN Rejected("AggregateError")
    ELSE Pending

\* `return await Promise.race(...)` / `return await Promise.any(...)`: the
\* promise withTimeout returned keeps its settlement once it has one
Awaited(w, promise, timeout) ==
    IF w.result.status # "pending" THEN w.result
    ELSE IF w.impl = "race" THEN PromiseRace(promise, timeout)
    ELSE PromiseAny(promise, timeout)

\* withTimeout(promise, timeoutMs) is called at time 0: the timer is set
withTimeout(impl, promise, timeoutMs) ==
    /\ wt.pc = "none"
    /\ wt' = [pc |-> "called", impl |-> impl, input |-> promise,
              timeoutMs |-> timeoutMs, now |-> 0, promise |-> Pending,
              timeout |-> Pending, fired |-> FALSE, unhandled |-> "none",
              result |-> Pending]
    /\ UNCHANGED << userVars, wr, pl >>

\* the wrapped promise settles at its time
withTimeout_promise ==
    /\ wt.pc = "called"
    /\ wt.promise.status = "pending"
    /\ wt.input.settles
    /\ wt.input.at = wt.now
    /\ wt' = [wt EXCEPT !.promise = Settlement(wt.input),
                        !.result = Awaited(wt, Settlement(wt.input),
                                           wt.timeout)]
    /\ UNCHANGED << userVars, wr, pl >>

\* the timer set for timeoutMs fires. "race": the async executor resumes and
\* throws, which rejects the promise the executor returned, not `timeout`,
\* and nobody handles it. "any": `reject(timeout)`.
withTimeout_timer ==
    /\ wt.pc = "called"
    /\ ~wt.fired
    /\ wt.timeoutMs = wt.now
    /\ LET timeout == IF wt.impl = "race" THEN wt.timeout
                      ELSE Rejected("timeout")
       IN wt' = [wt EXCEPT !.fired = TRUE,
                           !.timeout = timeout,
                           !.unhandled = IF wt.impl = "race"
                                         THEN "Operation timed out" ELSE @,
                           !.result = Awaited(wt, wt.promise, timeout)]
    /\ UNCHANGED << userVars, wr, pl >>

\* time passes once everything due now has happened
withTimeout_tick ==
    /\ wt.pc = "called"
    /\ wt.now < MaxTime
    /\ wt.fired \/ wt.timeoutMs # wt.now
    /\ wt.promise.status # "pending" \/ ~wt.input.settles
       \/ wt.input.at # wt.now
    /\ wt' = [wt EXCEPT !.now = @ + 1]
    /\ UNCHANGED << userVars, wr, pl >>

NextTimeout ==
    \/ \E impl \in Impls, promise \in Promises, timeoutMs \in 1..MaxTimeout :
          withTimeout(impl, promise, timeoutMs)
    \/ withTimeout_promise
    \/ withTimeout_timer
    \/ withTimeout_tick

\* ------------------------------------------------------------- withRetry
\* options.maxRetries runs from 0 to MaxRetries
MaxRetries == 3

\* the two (identical) implementations of withRetry, by the test they are in
RetryImpls == {"backoff", "giveUp"}

\* how an attempt may fail: with a NetworkError or with another error
Failures == {"NetworkError", "Error"}

\* a mutant of Again: one attempt more
Again_oneMore(attempts, maxRetries) == attempts <= maxRetries + 1

\* } while (attempts <= options.maxRetries)
Again(attempts, maxRetries) == attempts <= maxRetries

\* options.baseDelayMs * (2 ** (attempts - 1))
Backoff(baseDelayMs, attempts) == baseDelayMs * (2 ^ (attempts - 1))

\* withRetry(operation, options) is called: `attempts++` and the first
\* `operation()`. outcomes and delays are history: how each attempt ended,
\* and the delays that were started; elapsed counts the delays that have
\* completed.
withRetry(impl, maxRetries, baseDelayMs) ==
    /\ wr.pc = "none"
    /\ wr' = [pc |-> "operation", impl |-> impl, maxRetries |-> maxRetries,
              baseDelayMs |-> baseDelayMs, attempts |-> 1, invoked |-> 1,
              outcomes |-> << >>, delays |-> << >>, elapsed |-> 0,
              result |-> Pending]
    /\ UNCHANGED << userVars, wt, pl >>

\* `return await operation()`: the attempt fulfils
withRetry_return ==
    /\ wr.pc = "operation"
    /\ wr' = [wr EXCEPT !.pc = "done",
                        !.outcomes = Append(@, "ok"),
                        !.result = Fulfilled("Success!")]
    /\ UNCHANGED << userVars, wt, pl >>

\* the attempt fails: the catch starts a delay without awaiting it, then
\* the loop test, then `attempts++` and `operation()` again, or the throw
withRetry_catch ==
    /\ wr.pc = "operation"
    /\ \E e \in Failures :
        LET caught == [wr EXCEPT
                          !.outcomes = Append(@, e),
                          !.delays = Append(@, Backoff(wr.baseDelayMs,
                                                       wr.attempts))]
        IN IF Again(wr.attempts, wr.maxRetries)
           THEN wr' = [caught EXCEPT !.attempts = @ + 1, !.invoked = @ + 1]
           ELSE wr' = [caught EXCEPT
                          !.pc = "done",
                          !.result =
                              Rejected("Service temporarily unavailable")]
    /\ UNCHANGED << userVars, wt, pl >>

\* MockApiService.delay: the timer of the oldest delay still running fires
\* (a later delay is started later and is longer, so it ends later)
withRetry_delay ==
    /\ wr.pc # "none"
    /\ wr.elapsed < Len(wr.delays)
    /\ wr' = [wr EXCEPT !.elapsed = @ + 1]
    /\ UNCHANGED << userVars, wt, pl >>

NextRetry ==
    \/ \E impl \in RetryImpls, maxRetries \in 0..MaxRetries,
          baseDelayMs \in {10, 100} :
          withRetry(impl, maxRetries, baseDelayMs)
    \/ withRetry_return
    \/ withRetry_catch
    \/ withRetry_delay

\* ------------------------------------------------------------- createPipeline
\* pipelines have from 1 to MaxOps operations
MaxOps == 3

\* the operations a pipeline is built from, and the inputs it is called with
Ops == {"f", "g", "h"}
Inputs == {"x", "y"}

RECURSIVE SeqsUpTo(_, _)
\* the non-empty sequences over S of length at most n
SeqsUpTo(S, n) ==
    IF n = 0 THEN {}
    ELSE SeqsUpTo(S, n - 1) \cup [1..n -> S]

\* a value is the input and the operations applied to it so far, innermost
\* first: << "x", "f", "g" >> is g(f(x))
ApplyOp(op, value) == Append(value, op)

\* `operations[1]`: the operation the loop body calls in iteration i
NextOperation(operations, i) == 1

\* createPipeline(...operations)(input) is called:
\* `await operations[0](input)`. called is history: the indices of the
\* operations invoked.
createPipeline(operations, input) ==
    /\ pl.pc = "none"
    /\ pl' = [pc |-> "await", operations |-> operations, input |-> input,
              i |-> 0, running |-> 0, arg |-> << input >>,
              ret |-> << >>, called |-> << 0 >>, result |-> Pending]
    /\ UNCHANGED << userVars, wt, wr >>

\* the awaited operation fulfils: `ret = ...`, then the loop test with the
\* next i, then `await operations[1](ret)` or `return ret`
createPipeline_await ==
    /\ pl.pc = "await"
    /\ LET ret == ApplyOp(pl.operations[pl.running + 1], pl.arg)
           i == pl.i + 1
           op == NextOperation(pl.operations, i)
       IN IF i < Len(pl.operations)
          THEN pl' = [pl EXCEPT !.ret = ret, !.i = i, !.running = op,
                                !.arg = ret, !.called = Append(@, op)]
          ELSE pl' = [pl EXCEPT !.ret = ret, !.i = i, !.pc = "done",
                                !.result = Fulfilled(ret)]
    /\ UNCHANGED << userVars, wt, wr >>

NextPipeline ==
    \/ \E operations \in SeqsUpTo(Ops, MaxOps), input \in Inputs :
          createPipeline(operations, input)
    \/ createPipeline_await

\* ------------------------------------------------------------- specifications
Step(p) ==
    \/ initDb_open(p)
    \/ initDb_exec(p)
    \/ withTransaction_begin(p)
    \/ withTransaction_commit(p)
    \/ withTransaction_rollback(p)
    \/ createUser_run(p)
    \/ createUser_get(p)
    \/ getUserById_get(p)
    \/ getAllUsers_all(p)
    \/ updateUser_current(p)
    \/ updateUser_run(p)
    \/ updateUser_updated(p)
    \/ deleteUser_get(p)
    \/ deleteUser_run(p)

\* one caller, each call awaited before the next
Next == \E p \in SeqProcs : Start(p) \/ Step(p)

\* callers whose calls overlap
NextConc == \E p \in Procs : StartConc(p) \/ Step(p)

\* one caller that may pass null fields to createUser
NextNull == \E p \in SeqProcs : StartNull(p) \/ Step(p)

\* one caller on a store whose DELETE may report no row affected
NextZero == \E p \in SeqProcs : Start(p) \/ Step(p) \/ deleteUser_zero(p)

\* the steps of the accessors the controllers call
StepHttp(p) ==
    \/ initDb_open(p)
    \/ initDb_exec(p)
    \/ withTransaction_begin(p)
    \/ withTransaction_commit(p)
    \/ withTransaction_rollback(p)
    \/ createUser_run(p)
    \/ createUser_get(p)
    \/ getUserById_get(p)
    \/ getAllUsers_all(p)
    \/ deleteUser_get(p)
    \/ deleteUser_run(p)

\* one request at a time, handled by either version of the controllers
NextHttp ==
    \E p \in SeqProcs :
        \/ getAllUsers_handler(p)
        \/ getAllUsers_settled(p)
        \/ createUser_handler(p)
        \/ createUser_settled(p)
        \/ getUserById_handler(p)
        \/ getUserById_settled(p)
        \/ deleteUserById_handler(p)
        \/ deleteUserById_settled(p)
        \/ StepHttp(p)

\* sequential calls on a store that works
Spec == Init /\ [][Next]_vars

\* sequential calls on a store that may fail a statement
InitFault == InitWith(MaxFaultCalls, MaxFaults)
SpecFault == InitFault /\ [][Next]_vars

\* sequential calls, createUser fields possibly null, on a store that works
SpecNull == Init /\ [][NextNull]_vars

\* sequential calls on a store whose DELETE may report no row affected
SpecZero == Init /\ [][NextZero]_vars

\* requests handled one at a time on a store that may fail a statement
InitHttp == InitWith(MaxFaultCalls, MaxFaults)
SpecHttp == InitHttp /\ [][NextHttp]_vars

\* one withTimeout call, with either implementation
SpecTimeout == InitWith(0, 0) /\ [][NextTimeout]_vars

\* one withRetry call
SpecRetry == InitWith(0, 0) /\ [][NextRetry]_vars

\* one call of a pipeline
SpecPipeline == InitWith(0, 0) /\ [][NextPipeline]_vars

\* overlapping calls on a store that works
InitConc == InitWith(MaxConcCalls, 0)
SpecConc == InitConc /\ [][NextConc]_vars

\* ------------------------------------------------------------- properties
\* caller p's call has returned or thrown and p has not started another
Settled(p, op) ==
    pc[p] = "idle" /\ res[p].status # "none" /\ call[p].op = op

IdsOf(rows) == {r.id : r \in rows}

\* some existing user holds the username or the email
Taken(rows, username, email) ==
    \E r \in rows : r.username = username \/ r.email = email

\* the row with this id among rows (NoRow when there is none)
RowOf(rows, id) ==
    IF id \in IdsOf(rows) THEN CHOOSE r \in rows : r.id = id ELSE NoRow

\* C1: a createUser whose username or email an existing user already holds
\* fails with UserAlreadyExistsError and leaves the store as it was: every
\* user that existed is unmodified and retrievable, and the listing is the
\* one from before the call.
C1_DuplicateCreateRejected ==
    \A p \in Procs :
        (/\ Settled(p, "createUser")
         /\ Taken(pre[p].rows, call[p].fields.username, call[p].fields.email))
        => /\ res[p].status = "err"
           /\ res[p].err.kind = "UserAlreadyExistsError"
           /\ file.rows = pre[p].rows
           /\ \A r \in pre[p].rows : SelectById(file, r.id) = r
           /\ OrderById(file.rows) = OrderById(pre[p].rows)

\* C1 witness: a createUser that shared only its email with an existing user
\* was rejected
C1_Witness ==
    \E p \in Procs :
        /\ Settled(p, "createUser")
        /\ \E r \in pre[p].rows : /\ r.email = call[p].fields.email
                                  /\ r.username # call[p].fields.username
        /\ res[p].err.kind = "UserAlreadyExistsError"

\* C2: at every moment, whatever createUser, updateUser and deleteUser calls
\* succeeded or failed before, no two existing users share an id, a username
\* or an email (in the file and in what any connection sees).
C2_UsernamesAndEmailsUnique ==
    \A d \in {file} \cup {View(h) : h \in Handles} :
        \A r1, r2 \in d.rows :
            r1 # r2 => /\ r1.id # r2.id
                       /\ r1.username # r2.username
                       /\ r1.email # r2.email

\* C2 witness: two users exist and an updateUser that would have given one
\* the other's email has just failed
C2_Witness ==
    \E p \in Procs :
        /\ Settled(p, "updateUser")
        /\ Cardinality(file.rows) = 2
        /\ res[p].err.code = "SQLITE_CONSTRAINT"
        /\ \E r \in file.rows : /\ r.id # call[p].id
                                /\ r.email = call[p].fields.email

\* C3 (as claimed): whenever a transactional accessor call fails, the error
\* its caller receives is the very error that caused the failure.
C3_OriginalErrorReraised ==
    \A p \in Procs :
        (/\ pc[p] = "idle"
         /\ res[p].status = "err"
         /\ call[p].op \in {"createUser", "updateUser", "deleteUser"})
        => res[p].err = res[p].cause

\* C3 failing run: the body of a transaction failed with an I/O error and
\* the caller received the error of the ROLLBACK that followed
C3_RollbackErrorReceived ==
    \E p \in Procs :
        /\ pc[p] = "idle"
        /\ res[p].err.at = "ROLLBACK"
        /\ res[p].cause.at # "ROLLBACK"

\* C4: a createUser whose username and email no existing user holds succeeds
\* and returns a user with all five fields populated and the three supplied
\* fields as given; a getUserById(returned.id) that follows returns the
\* record createUser returned.
C4_CreateThenGetIdentical ==
    \A p \in Procs :
        /\ (/\ Settled(p, "createUser")
            /\ ~Taken(pre[p].rows, call[p].fields.username,
                      call[p].fields.email))
           => /\ res[p].status = "ok"
              /\ res[p].user.id \in Nat \ {0}
              /\ res[p].user.username = call[p].fields.username
              /\ res[p].user.email = call[p].fields.email
              /\ res[p].user.password_hash = call[p].fields.password_hash
              /\ res[p].user.created_at \in Times
        /\ (/\ Settled(p, "getUserById")
            /\ prev[p].op = "createUser"
            /\ call[p].id = prev[p].user.id)
           => /\ res[p].status = "ok"
              /\ res[p].user = prev[p].user

\* C4 witness: a getUserById of the id of the second user, just created,
\* has returned
C4_Witness ==
    \E p \in Procs :
        /\ Settled(p, "getUserById")
        /\ prev[p].op = "createUser"
        /\ call[p].id = prev[p].user.id
        /\ call[p].id = 2
        /\ res[p].status = "ok"

\* C5: the id createUser assigns is greater than the id of every user that
\* ever existed before the call, deleted users included.
C5_IdsNeverReused ==
    \A p \in Procs :
        (Settled(p, "createUser") /\ res[p].status = "ok")
        => \A i \in pre[p].ever : i < res[p].user.id

\* C5 witness: a user was created after another one had been deleted
C5_Witness ==
    \E p \in Procs :
        /\ Settled(p, "createUser")
        /\ res[p].status = "ok"
        /\ pre[p].ever \ IdsOf(pre[p].rows) # {}

\* C6: deleteUser(id) of an existing user returns the record as it was,
\* removes that row and no other, and a getUserById(id) that follows fails
\* with UserNotFoundError.
C6_DeleteRemovesExactlyThatRow ==
    \A p \in Procs :
        /\ (/\ Settled(p, "deleteUser")
            /\ call[p].id \in IdsOf(pre[p].rows))
           => /\ res[p].status = "ok"
              /\ res[p].user = RowOf(pre[p].rows, call[p].id)
              /\ file.rows = pre[p].rows \ {RowOf(pre[p].rows, call[p].id)}
        /\ (/\ Settled(p, "getUserById")
            /\ prev[p].op = "deleteUser"
            /\ call[p].id = prev[p].user.id)
           => /\ res[p].status = "err"
              /\ res[p].err.kind = "UserNotFoundError"

\* C6 witness: one of two users was deleted and the other is still there
C6_Witness ==
    \E p \in Procs :
        /\ Settled(p, "deleteUser")
        /\ res[p].status = "ok"
        /\ Cardinality(pre[p].rows) = 2
        /\ Cardinality(file.rows) = 1

\* the row updateUser is to leave behind: the supplied fields replaced, the
\* others, id and created_at kept
Expected(old, updates) ==
    [old EXCEPT
        !.username = IF updates.username = ABSENT THEN @
                     ELSE updates.username,
        !.email = IF updates.email = ABSENT THEN @ ELSE updates.email,
        !.password_hash = IF updates.password_hash = ABSENT THEN @
                          ELSE updates.password_hash]

\* updateUser(id, updates) would leave two users with one username or email
Conflicts(rows, id, updates) ==
    LET new == Expected(RowOf(rows, id), updates)
    IN \E r \in rows : /\ r.id # id
                       /\ (r.username = new.username \/ r.email = new.email)

\* what C7 says of a settled updateUser of an existing user
UpdateApplied(p) ==
    LET old == RowOf(pre[p].rows, call[p].id)
        new == Expected(old, call[p].fields)
    IN /\ res[p].status = "ok"
       /\ res[p].user = new
       /\ SelectById(file, call[p].id) = res[p].user
       /\ file.rows = (pre[p].rows \ {old}) \cup {new}

\* C7 (as claimed): every updateUser of an existing user sets the supplied
\* fields, keeps the others, id and created_at, leaves the other rows alone
\* and returns the row as stored.
C7_UpdateAlwaysApplied ==
    \A p \in Procs :
        (/\ Settled(p, "updateUser")
         /\ call[p].id \in IdsOf(pre[p].rows))
        => UpdateApplied(p)

\* C7 (amended): the same, for an updateUser that leaves no username or email
\* held by two users.
C7_UpdateAppliedUnlessConflict ==
    \A p \in Procs :
        (/\ Settled(p, "updateUser")
         /\ call[p].id \in IdsOf(pre[p].rows)
         /\ ~Conflicts(pre[p].rows, call[p].id, call[p].fields))
        => UpdateApplied(p)

\* C7 witness: an updateUser that supplied only an email succeeded while
\* another user existed
C7_Witness ==
    \E p \in Procs :
        /\ Settled(p, "updateUser")
        /\ res[p].status = "ok"
        /\ call[p].fields.username = ABSENT
        /\ call[p].fields.password_hash = ABSENT
        /\ call[p].fields.email # ABSENT
        /\ call[p].fields.email # RowOf(pre[p].rows, call[p].id).email
        /\ Cardinality(file.rows) = 2

\* C8: getUserById(id) fails with UserNotFoundError when id was never
\* assigned or its user was deleted, and returns the user when it exists.
C8_GetFindsExactlyExisting ==
    \A p \in Procs :
        Settled(p, "getUserById")
        => /\ (call[p].id \notin pre[p].ever
               \/ call[p].id \in pre[p].ever \ IdsOf(pre[p].rows))
              => /\ res[p].status = "err"
                 /\ res[p].err.kind = "UserNotFoundError"
           /\ call[p].id \in IdsOf(pre[p].rows)
              => /\ res[p].status = "ok"
                 /\ res[p].user = RowOf(pre[p].rows, call[p].id)

\* C8 witness: getUserById of a deleted user's id failed
C8_Witness ==
    \E p \in Procs :
        /\ Settled(p, "getUserById")
        /\ call[p].id \in pre[p].ever \ IdsOf(pre[p].rows)
        /\ res[p].err.kind = "UserNotFoundError"

\* C9: getAllUsers never fails and returns the existing users, each once, in
\* ascending id order (the empty list when there are none).
C9_GetAllSortedAndComplete ==
    \A p \in Procs :
        Settled(p, "getAllUsers")
        => /\ res[p].status = "ok"
           /\ Len(res[p].list) = Cardinality(pre[p].rows)
           /\ {res[p].list[i] : i \in 1..Len(res[p].list)} = pre[p].rows
           /\ \A i, j \in 1..Len(res[p].list) :
                  i < j => res[p].list[i].id < res[p].list[j].id

\* C9 witness: getAllUsers returned two users
C9_Witness ==
    \E p \in Procs :
        /\ Settled(p, "getAllUsers")
        /\ Len(res[p].list) = 2

\* C10 (as claimed): however many initDb calls are made, overlapping or not,
\* the store is opened at most once and every call gets the same handle.
C10_OpenedAtMostOnce ==
    /\ opened <= 1
    /\ Cardinality(handed) <= 1

\* ------------------------------------------------------------- C11
\* C11: once an initDb call has completed the bootstrap, every later accessor
\* call gets the module's open handle at once: it neither opens the file
\* again nor sends CREATE TABLE again, and the store is not touched.
C11_LaterInitDbReturnsOpenHandle ==
    [][\A p \in Procs :
          (booted # {} /\ pc[p] = "idle" /\ pc'[p] # "idle")
          => /\ pc'[p] \notin {"open", "bootstrap"}
             /\ loc'[p].h = db
             /\ db \in booted
             /\ << db, opened, file, conn, booted >>' =
                << db, opened, file, conn, booted >>]_vars

\* a second call has been handed the handle the first call opened
C11_Witness ==
    \E p \in Procs :
        /\ booted = {1}
        /\ opened = 1
        /\ calls = MaxCalls - 2
        /\ pc[p] \notin {"idle", "open", "bootstrap"}
        /\ loc[p].h = 1

\* ------------------------------------------------------------- C12
\* C12: initDb never returns a handle on which the bootstrap statement has
\* not completed: after a failed bootstrap later calls fail as well.
C12_NoHandleWithoutBootstrap == handed \subseteq booted

\* ------------------------------------------------------------- C13
\* C13: a createUser that fails fails with UserAlreadyExistsError exactly
\* when its username or email is held by an existing user; any other failure
\* of the store, a constraint violation that is not about uniqueness
\* included, is not reported as UserAlreadyExistsError.
C13_AlreadyExistsIffUniqueness ==
    \A p \in Procs :
        (Settled(p, "createUser") /\ res[p].status = "err")
        => (res[p].err.kind = "UserAlreadyExistsError"
            <=> Taken(pre[p].rows, call[p].fields.username,
                      call[p].fields.email))

\* ------------------------------------------------------------- C14
\* C14: an updateUser of an existing user whose resulting username or email
\* is held by another user fails with the store's constraint error, not with
\* UserAlreadyExistsError; ROLLBACK was issued after BEGIN before the call
\* failed, no transaction is left open and every row is as before the call.
C14_ConflictingUpdateRolledBack ==
    \A p \in Procs :
        (/\ Settled(p, "updateUser")
         /\ call[p].id \in IdsOf(pre[p].rows)
         /\ Conflicts(pre[p].rows, call[p].id, call[p].fields))
        => /\ res[p].status = "err"
           /\ res[p].err = StoreError("SQLITE_CONSTRAINT", "UPDATE")
           /\ res[p].err.kind # "UserAlreadyExistsError"
           /\ res[p].tx = << "begin", "rollback" >>
           /\ ~conn[db].txn
           /\ file.rows = pre[p].rows

\* an updateUser that set a user's email to the email of the other user has
\* failed
C14_Witness ==
    \E p \in Procs :
        /\ Settled(p, "updateUser")
        /\ Cardinality(pre[p].rows) = 2
        /\ call[p].fields.username = ABSENT
        /\ \E r \in pre[p].rows :
              r.id # call[p].id /\ r.email = call[p].fields.email
        /\ res[p].status = "err"

\* ------------------------------------------------------------- C15
\* C15: whatever the interleaving of the callers, the BEGIN of a
\* withTransaction never reaches a handle on which a transaction is open.
C15_BeginNeverInsideTransaction ==
    [][\A p \in Procs :
          (pc[p] = "begin" /\ pc'[p] # "begin") => ~conn[loc[p].h].txn]_vars

\* ------------------------------------------------------------- C16
\* what C16 says of a call that found no user: it failed with
\* UserNotFoundError, ROLLBACK was issued after BEGIN, no transaction is left
\* open and the rows are those from before the call
NotFoundRolledBack(p) ==
    /\ res[p].status = "err"
    /\ res[p].err.kind = "UserNotFoundError"
    /\ res[p].tx = << "begin", "rollback" >>
    /\ ~conn[db].txn
    /\ file.rows = pre[p].rows

\* C16: updateUser and deleteUser of an id that has no row fail with
\* UserNotFoundError after ROLLBACK and leave the table unchanged; so does a
\* deleteUser whose DELETE reported no row affected although its SELECT had
\* found the user.
C16_MissingUserRolledBack ==
    \A p \in Procs :
        /\ (/\ Settled(p, "updateUser") \/ Settled(p, "deleteUser")
            /\ call[p].id \notin IdsOf(pre[p].rows))
           => NotFoundRolledBack(p)
        /\ (/\ Settled(p, "deleteUser")
            /\ call[p].id \in IdsOf(pre[p].rows)
            /\ res[p].changes = 0)
           => NotFoundRolledBack(p)

\* the last call, a deleteUser of an existing user, has settled after its
\* DELETE reported no row affected
C16_Witness ==
    \E p \in Procs :
        /\ Settled(p, "deleteUser")
        /\ call[p].id \in IdsOf(pre[p].rows)
        /\ res[p].changes = 0
        /\ calls = 0

\* ------------------------------------------------------------- C17
\* the caller's last request went to this handler and the handler has run to
\* its end
Done(p, handler) == http[p].handler = handler /\ ~http[p].awaiting

\* C17: while the store works, the deleteUserById controller sends exactly
\* one response to each request: 200 when deleteUser deleted the user, 404
\* when no user had the id.
C17_DeleteRespondsOnce ==
    \A p \in Procs :
        (Done(p, "deleteUserById") /\ faults = MaxFaults)
        => /\ Len(http[p].sent) = 1
           /\ res[p].status = "ok" => http[p].sent[1].status = 200
           /\ call[p].id \notin IdsOf(pre[p].rows)
              => http[p].sent[1].status = 404

\* ------------------------------------------------------------- C18
\* username, email or password_hash is missing from the body or empty
LacksField(body) ==
    \/ body.username \in {ABSENT, EMPTY}
    \/ body.email \in {ABSENT, EMPTY}
    \/ body.password_hash \in {ABSENT, EMPTY}

\* C18: the createUser controller answers a body that lacks a field with 400
\* and makes no data-layer call; otherwise it calls db.createUser once, with
\* the three fields of the body, and answers 201 with the created user when
\* the call succeeds, 409 when it fails with UserAlreadyExistsError and 500
\* when it fails otherwise.
C18_CreateUserStatuses ==
    \A p \in Procs :
        Done(p, "createUser")
        => /\ http[p].passed = NoErr
           /\ IF LacksField(http[p].body)
              THEN /\ http[p].sent = << Response(400, NoRow) >>
                   /\ http[p].dbCalls = 0
              ELSE /\ http[p].dbCalls = 1
                   /\ call[p] = [op |-> "createUser", id |-> 0,
                                 fields |-> http[p].body]
                   /\ http[p].sent =
                        IF res[p].status = "ok"
                        THEN << Response(201, res[p].user) >>
                        ELSE IF res[p].err.kind = "UserAlreadyExistsError"
                        THEN << Response(409, NoRow) >>
                        ELSE << Response(500, NoRow) >>

\* a createUser request was answered 409 after an earlier one had created
\* the user
C18_Witness ==
    \E p \in Procs :
        /\ Done(p, "createUser")
        /\ http[p].dbCalls = 1
        /\ http[p].sent = << Response(409, NoRow) >>
        /\ Cardinality(file.rows) = 1

\* ------------------------------------------------------------- C19
\* C19: once timeoutMs has elapsed with the wrapped promise still pending,
\* withTimeout has rejected with 'Operation timed out'; once the wrapped
\* promise has fulfilled before timeoutMs, withTimeout has resolved with its
\* value.
C19_TimeoutRejectsFastResolves ==
    wt.pc = "called"
    => /\ (wt.fired /\ (~wt.input.settles \/ wt.input.at > wt.timeoutMs))
          => wt.result = Rejected("Operation timed out")
       /\ (/\ wt.input.settles
           /\ wt.input.how = "fulfilled"
           /\ wt.input.at < wt.timeoutMs
           /\ wt.promise.status # "pending")
          => wt.result = Fulfilled("value")

\* ------------------------------------------------------------- C20
\* the attempts of the withRetry call that have failed
FailedAttempts == {i \in 1..Len(wr.outcomes) : wr.outcomes[i] # "ok"}

\* C20: withRetry calls the operation at most maxRetries + 1 times; it
\* resolves with the value of the first attempt that succeeds, which is its
\* last attempt; it rejects when maxRetries + 1 attempts have failed, and
\* only then.
C20_RetryBounded ==
    wr.pc # "none"
    => /\ wr.invoked <= wr.maxRetries + 1
       /\ Len(wr.outcomes) <= wr.invoked
       /\ wr.pc = "done" <=> wr.result.status # "pending"
       /\ wr.pc = "done" => Len(wr.outcomes) = wr.invoked
       /\ "ok" \in {wr.outcomes[i] : i \in 1..Len(wr.outcomes)}
          <=> wr.result = Fulfilled("Success!")
       /\ wr.result.status = "fulfilled"
          => FailedAttempts = 1..(Len(wr.outcomes) - 1)
       /\ Cardinality(FailedAttempts) = wr.maxRetries + 1
          <=> wr.result.status = "rejected"

\* a withRetry call with maxRetries = 2 has rejected after three failed
\* attempts
C20_Witness ==
    /\ wr.pc = "done"
    /\ wr.maxRetries = 2
    /\ wr.invoked = 3
    /\ wr.result.status = "rejected"

\* ------------------------------------------------------------- C21
\* C21: the delay started after the k-th failed attempt lasts
\* baseDelayMs * 2^(k-1), and attempt k+1 has not started unless that delay
\* has completed.
C21_BackoffBetweenAttempts ==
    wr.pc # "none"
    => /\ \A k \in 1..Len(wr.delays) :
             wr.delays[k] = wr.baseDelayMs * (2 ^ (k - 1))
       /\ wr.invoked <= wr.elapsed + 1

\* ------------------------------------------------------------- C22
\* C22: an attempt that fails with an error other than a NetworkError is the
\* last attempt, and its error is what withRetry rejects with; when the
\* attempts are exhausted withRetry rejects with the error of the last one.
C22_RetryOnlyNetworkError ==
    wr.pc # "none"
    => /\ \A k \in 1..Len(wr.outcomes) :
             wr.outcomes[k] = "Error"
             => /\ k = wr.invoked
                /\ wr.result = Rejected("Error")
       /\ wr.result.status = "rejected"
          => wr.result.with = wr.outcomes[Len(wr.outcomes)]

\* ------------------------------------------------------------- C23
\* C23: the pipeline of op1, ..., opn called on x returns
\* opn(...op2(op1(x))...), having called each operation once, in order.
C23_PipelineComposes ==
    pl.pc = "done"
    => /\ pl.result = Fulfilled(<< pl.input >> \o pl.operations)
       /\ pl.called = [k \in 1..Len(pl.operations) |-> k - 1]

\* ------------------------------------------------------------- C24
\* C24: whatever the interleaving, the user that getUserById returns and the
\* users that getAllUsers returns are rows of the committed content of the
\* store at the time of the read.
C24_ReadsOnlyCommitted ==
    [][\A p \in Procs :
          (pc[p] \in {"get", "all"} /\ pc'[p] = "idle"
           /\ res'[p].status = "ok")
          => /\ call[p].op = "getUserById" => res'[p].user \in file.rows
             /\ \A k \in 1..Len(res'[p].list) :
                   res'[p].list[k] \in file.rows]_vars

\* ------------------------------------------------------------- C25
\* the handle on which the caller's pending statement runs
StatementHandle(p) ==
    IF pc[p] \in {"current", "updated"} THEN loc[p].g ELSE loc[p].h

\* C25: every statement of an accessor runs on a handle on which CREATE TABLE
\* has completed successfully.
C25_NoStatementBeforeBootstrap ==
    [][\A p \in Procs :
          (pc[p] \notin {"idle", "open", "bootstrap"} /\ pc'[p] # pc[p])
          => StatementHandle(p) \in booted]_vars

\* ------------------------------------------------------------- C26
\* the caller's last call went through withTransaction and has settled
Bracketed(p) ==
    /\ pc[p] = "idle"
    /\ res[p].status # "none"
    /\ res[p].tx # << >>

\* C26: a call whose BEGIN failed issued nothing after it; a call whose
\* BEGIN succeeded issued exactly one COMMIT or ROLLBACK after it before it
\* settled; and once the call has settled no transaction is open on the
\* handle.
C26_BracketClosedOnce ==
    \A p \in Procs :
        Bracketed(p)
        => /\ IF res[p].status = "err" /\ res[p].err.at = "BEGIN"
              THEN res[p].tx = << "begin" >>
              ELSE res[p].tx \in {<< "begin", "commit" >>,
                                  << "begin", "rollback" >>}
           /\ ~conn[db].txn

=============================================================================
